---- MODULE Spec2Model ----
(***************************************************************************)
(* Model of automation.py: three source adapters (fetch_reddit,            *)
(* fetch_google_news, fetch_hacker_news), the pandas pipeline of           *)
(* clean_and_merge, the sheet writer save_to_sheet and the orchestrator    *)
(* run_automation.                                                         *)
(*                                                                         *)
(* Representation of Python values:                                        *)
(*   - title, link, source: TLA+ strings; None is the string NONE, an      *)
(*     absent dictionary key / attribute is the string MISSING;            *)
(*   - date: a Python string as the sequence of its characters, so that    *)
(*     pandas' comparison of date values (str < str) is computed           *)
(*     character by character; None is NoneDate;                           *)
(*   - summary / selftext / story_text: the text is abstracted to its      *)
(*     length, the only thing slicing [:200] and the 200 limit read;       *)
(*   - time: whole hours since 1970-01-01T00:00 UTC.                       *)
(***************************************************************************)
EXTENDS Integers, Sequences, FiniteSets, TLC

VARIABLES
    pc,        \* position of run_automation / of the function harnesses
    tz,        \* UTC offset (hours) of the machine's local time zone
    raw,       \* the response the external collaborator gave to the last fetch
    ret,       \* what the last adapter call returned: [raised, data]
    reddit,    \* run_automation's local `reddit`
    gnews,     \* run_automation's local `gnews`
    hacker,    \* run_automation's local `hacker`
    results,   \* the list passed to clean_and_merge
    df,        \* what clean_and_merge returned: [raised, rows]
    sheet,     \* content of the destination worksheet, a sequence of rows
    sheetBefore, \* history: what the worksheet held when the run started
    calls,     \* history: the stages invoked so far, in order
    failedAt,  \* the stage whose exception ended the run, or "none"
    outcome    \* "running", "success" (line 178 reached) or "failure"

vars == <<pc, tz, raw, ret, reddit, gnews, hacker, results, df, sheet,
          sheetBefore, calls, failedAt, outcome>>

-----------------------------------------------------------------------------
(* Bounds of the model *)

\* longest list handed to clean_and_merge by the function harness
MaxRecords == 3
\* most items in one adapter response in the adapter harness
MaxItems == 2
\* most items in one adapter response in a whole run
MaxRunItems == 1

-----------------------------------------------------------------------------
(* Python values *)

NONE == "<None>"
MISSING == "<missing>"
NoneDate == <<"<None>">>
MissingDate == <<"<missing>">>
EmptyStr == <<>>
NullInt == 0 - 1
MissingInt == 0 - 2

\* dict.get(key, default): the default only when the key is absent; a key
\* present with a null value gives None
dict_get(v, default) == IF v = MISSING THEN default ELSE v
dict_get_date(v, default) ==
    IF v = MissingDate THEN default ELSE v
dict_get_int(v, default) == IF v = MissingInt THEN default ELSE v

\* code points of the characters that occur in the modelled date strings
Ord ==
    ("+" :> 43) @@ ("-" :> 45) @@ ("." :> 46) @@ ("/" :> 47) @@
    ("0" :> 48) @@ ("1" :> 49) @@ ("2" :> 50) @@ ("3" :> 51) @@ ("4" :> 52) @@
    ("5" :> 53) @@ ("6" :> 54) @@ ("7" :> 55) @@ ("8" :> 56) @@ ("9" :> 57) @@
    (":" :> 58) @@ ("T" :> 84) @@ ("Z" :> 90) @@ ("a" :> 97) @@ ("n" :> 110)

\* Python's str < str: lexicographic by code point, a proper prefix is smaller
RECURSIVE str_lt(_, _)
str_lt(a, b) ==
    IF b = <<>> THEN FALSE
    ELSE IF a = <<>> THEN TRUE
    ELSE IF Head(a) = Head(b) THEN str_lt(Tail(a), Tail(b))
    ELSE Ord[Head(a)] < Ord[Head(b)]

DigitChar == <<"0", "1", "2", "3", "4", "5", "6", "7", "8", "9">>
TwoDigits(n) == <<DigitChar[(n \div 10) + 1], DigitChar[(n % 10) + 1]>>

\* hours from 1970-01-01T00:00 to 2024-01-01T00:00 (19723 days)
HoursTo2024 == 19723 * 24
HoursPerMonth == 31 * 24

\* datetime.isoformat() of a naive wall-clock time on a whole hour, for wall
\* clocks in January 1970 or January 2024: "YYYY-01-DDTHH:00:00"
isoformat(w) ==
    LET epochMonth == w < HoursPerMonth
        h == IF epochMonth THEN w ELSE w - HoursTo2024
        year == IF epochMonth THEN <<"1", "9", "7", "0">>
                              ELSE <<"2", "0", "2", "4">>
    IN  year \o <<"-", "0", "1", "-">> \o TwoDigits((h \div 24) + 1) \o <<"T">>
             \o TwoDigits(h % 24) \o <<":", "0", "0", ":", "0", "0">>

\* the "+HH:00" / "-HH:00" suffix isoformat() appends for an aware datetime
utcoffset_suffix(off) ==
    (IF off < 0 THEN <<"-">> ELSE <<"+">>)
        \o TwoDigits(IF off < 0 THEN 0 - off ELSE off) \o <<":", "0", "0">>

\* datetime.fromtimestamp(ts): the local wall clock of a POSIX timestamp
fromtimestamp(ts, offset) == ts + offset

\* text[:200] on a text of the given length
SummaryLimit == 200
slice_summary(len) == IF len > SummaryLimit THEN SummaryLimit ELSE len

Columns == <<"source", "title", "link", "date", "summary">>

-----------------------------------------------------------------------------
(* Source adapters *)

\* a function's result: either it raised, or it returned `data`
Raise == [raised |-> TRUE, data |-> <<>>]
Return(data) == [raised |-> FALSE, data |-> data]

\* the mutated handler: the exception leaves the adapter
try_except_reraises(r) == r

\* try: <body> except Exception as e: print(...); return []
try_except(r) == IF r.raised THEN Return(<<>>) ELSE r

\* evaluating the dict literal of lines 65-71 for child p raises: p["data"]
\* (KeyError), str + None, fromtimestamp(None), None[:200] (TypeError)
reddit_item_raises(p) ==
    \/ ~p.hasData
    \/ dict_get(p.permalink, "") = NONE
    \/ dict_get_int(p.created_utc, 0) = NullInt
    \/ dict_get_int(p.selftext, 0) = NullInt

reddit_record(p, offset) ==
    [source  |-> "Reddit",
     title   |-> dict_get(p.title, ""),
     link    |-> "https://www.reddit.com" \o dict_get(p.permalink, ""),
     date    |-> isoformat(fromtimestamp(dict_get_int(p.created_utc, 0), offset)),
     summary |-> slice_summary(dict_get_int(p.selftext, 0))]

\* lines 59-72: requests.get(...).json() raises on a network error, a timeout
\* or a body that is not JSON; response["data"]["children"] raises on a
\* payload of another shape
fetch_reddit_body(resp, offset) ==
    IF resp.kind # "ok" THEN Raise
    ELSE IF \E i \in 1..Len(resp.items) : reddit_item_raises(resp.items[i])
         THEN Raise
         ELSE Return([i \in 1..Len(resp.items) |->
                          reddit_record(resp.items[i], offset)])

fetch_reddit(resp, offset) == try_except(fetch_reddit_body(resp, offset))

\* evaluating the dict literal of lines 88-94 for an entry raises:
\* entry.title / .link / .published / .summary of an absent field
\* (AttributeError), parser.parse of a string that is no date (ParserError)
gnews_entry_raises(e) ==
    \/ e.title = MISSING
    \/ e.link = MISSING
    \/ e.published.st \in {"missing", "unparseable"}
    \/ e.summary = MissingInt

\* parser.parse(entry.published).isoformat(): the wall clock the string
\* names, followed by its UTC offset when the string names one
parse_isoformat(published) ==
    isoformat(published.wall) \o
        (IF published.st = "aware" THEN utcoffset_suffix(published.off)
                                   ELSE <<>>)

gnews_record(e) ==
    [source  |-> "Google News",
     title   |-> e.title,
     link    |-> e.link,
     date    |-> parse_isoformat(e.published),
     summary |-> slice_summary(e.summary)]

\* lines 85-95: feedparser.parse reports a fetch or XML error in the feed
\* object (bozo) and gives no entries; a timeout while reading raises
fetch_google_news_body(resp) ==
    IF resp.kind = "timeout" THEN Raise
    ELSE LET entries == IF resp.kind = "ok" THEN resp.items ELSE <<>>
         IN  IF \E i \in 1..Len(entries) : gnews_entry_raises(entries[i])
             THEN Raise
             ELSE Return([i \in 1..Len(entries) |-> gnews_record(entries[i])])

fetch_google_news(resp) == try_except(fetch_google_news_body(resp))

\* line 118: h.get("story_text", "") if h.get("story_text") else ""
hn_summary(story_text) ==
    IF dict_get_int(story_text, 0) \in {NullInt, 0}
    THEN 0
    ELSE dict_get_int(story_text, 0)

hn_record(h) ==
    [source  |-> "Hacker News",
     title   |-> dict_get(h.title, ""),
     link    |-> dict_get(h.url, ""),
     date    |-> dict_get_date(h.created_at, EmptyStr),
     summary |-> hn_summary(h.story_text)]

\* lines 108-120: requests.get(...).json() and response["hits"] raise as in
\* fetch_reddit; no expression of the loop body raises
fetch_hacker_news_body(resp) ==
    IF resp.kind # "ok" THEN Raise
    ELSE Return([i \in 1..Len(resp.items) |-> hn_record(resp.items[i])])

fetch_hacker_news(resp) == try_except(fetch_hacker_news_body(resp))

-----------------------------------------------------------------------------
(* clean_and_merge *)

\* pandas' isna on a cell: None, or the NaN a frame built from dictionaries
\* holds where a dictionary lacks the key
isna(v) == v \in {NONE, MISSING}
isna_date(d) == d \in {NoneDate, MissingDate}

\* pd.DataFrame(results) has the column "title" when some dictionary has the
\* key; dropna(subset=["title"]) raises KeyError when it does not, which is
\* the case of the empty list
has_title_column(rows) == \E i \in 1..Len(rows) : rows[i].title # MISSING

\* df.dropna(subset=["title"])
dropna_title(rows) == SelectSeq(rows, LAMBDA r : ~isna(r.title))

\* the mutated deduplication: keep="last"
RECURSIVE drop_duplicates_keep_last(_)
drop_duplicates_keep_last(rows) ==
    IF rows = <<>> THEN <<>>
    ELSE LET rest == Tail(rows)
             first == Head(rows)
         IN  IF \E j \in 1..Len(rest) :
                    rest[j].title = first.title /\ rest[j].link = first.link
             THEN drop_duplicates_keep_last(rest)
             ELSE <<first>> \o drop_duplicates_keep_last(rest)

\* df.drop_duplicates(subset=["title", "link"], keep="first")
RECURSIVE drop_duplicates(_)
drop_duplicates(rows) ==
    IF rows = <<>> THEN <<>>
    ELSE LET init == SubSeq(rows, 1, Len(rows) - 1)
             last == rows[Len(rows)]
         IN  IF \E j \in 1..Len(init) :
                    init[j].title = last.title /\ init[j].link = last.link
             THEN drop_duplicates(init)
             ELSE Append(drop_duplicates(init), last)

Permutations_of(n) ==
    {p \in [1..n -> 1..n] : \A a, b \in 1..n : p[a] = p[b] => a = b}

\* df.sort_values(by="date", ascending=False), kind left at its default
\* "quicksort": the rows whose date is not NaN by decreasing date, compared as
\* Python strings, rows of equal date in an order the algorithm does not
\* define; then the rows whose date is NaN, in their original order
sort_values_outcomes(rows) ==
    LET n == Len(rows)
        nan == {i \in 1..n : isna_date(rows[i].date)}
        k == n - Cardinality(nan)
        ok(p) ==
            /\ \A a \in 1..k : p[a] \notin nan
            /\ \A a, b \in 1..k :
                   a < b => ~str_lt(rows[p[a]].date, rows[p[b]].date)
            /\ \A a, b \in (k + 1)..n : a < b => p[a] < p[b]
    IN  {[i \in 1..n |-> rows[p[i]]] : p \in {q \in Permutations_of(n) : ok(q)}}

\* lines 129-144: every frame clean_and_merge can return for `rows`, or the
\* KeyError of dropna
clean_and_merge(rows) ==
    IF ~has_title_column(rows) THEN {Raise}
    ELSE {Return(s) :
            s \in sort_values_outcomes(drop_duplicates(dropna_title(rows)))}

-----------------------------------------------------------------------------
(* save_to_sheet *)

\* the mutated clear: the old cells stay
sheet_clear_keeps(content) == content

\* sheet.clear(): no cell keeps a value
sheet_clear(content) == <<>>

\* sheet.update(rows): the rows are written from the first row down; a row
\* below them keeps what it held
sheet_update(content, rows) ==
    [i \in 1..(IF Len(content) > Len(rows) THEN Len(content) ELSE Len(rows)) |->
        IF i <= Len(rows) THEN rows[i] ELSE content[i]]

\* [df.columns.tolist()] + df.values.tolist()
header_row == [columns |-> Columns]
values_row(r) == [values |-> <<r.source, r.title, r.link, r.date, r.summary>>]
sheet_rows(frame) ==
    <<header_row>> \o [i \in 1..Len(frame) |-> values_row(frame[i])]

-----------------------------------------------------------------------------
(* What the external collaborators can answer *)

\* UTC offsets of the machine's local time zone
LocalUtcOffsets == {0, 3}

\* 2024-01-02T10:00Z and 2024-01-02T12:00Z as POSIX time
T1 == HoursTo2024 + 34
T2 == HoursTo2024 + 36
LongText == SummaryLimit + 50

SeqsUpTo(S, n) == UNION {[1..m -> S] : m \in 0..n}

FailureKinds == {"network_error", "timeout", "malformed"}
Responses(items, n) ==
    {[kind |-> f, items |-> <<>>] : f \in FailureKinds}
        \cup {[kind |-> "ok", items |-> s] : s \in SeqsUpTo(items, n)}

NoResponse == [kind |-> "none", items |-> <<>>]

\* children of a Reddit search listing
RedditChildren ==
    {[hasData |-> TRUE, title |-> t, permalink |-> "/r/a", created_utc |-> c,
      selftext |-> s] :
        t \in {MISSING, "", "X"}, c \in {MissingInt, T1},
        s \in {MissingInt, NullInt, LongText}}
    \cup {[hasData |-> FALSE, title |-> MISSING, permalink |-> MISSING,
           created_utc |-> MissingInt, selftext |-> MissingInt],
          [hasData |-> TRUE, title |-> "Y", permalink |-> MISSING,
           created_utc |-> T2, selftext |-> 0]}

\* what a feed entry's published string can be: an RFC 822 date naming the
\* wall clock and the UTC offset, a date without offset, no date, absent
PublishedValues ==
    {[st |-> "aware", wall |-> T1, off |-> 0],
     [st |-> "aware", wall |-> T1 + 3, off |-> 5],
     [st |-> "naive", wall |-> T2, off |-> 0],
     [st |-> "unparseable", wall |-> 0, off |-> 0],
     [st |-> "missing", wall |-> 0, off |-> 0]}

\* entries of a Google News feed
GNewsEntries ==
    {[title |-> t, link |-> "g1", published |-> d, summary |-> s] :
        t \in {MISSING, "X"}, d \in PublishedValues,
        s \in {MissingInt, LongText}}
    \cup {[title |-> "Y", link |-> MISSING,
           published |-> [st |-> "aware", wall |-> T2, off |-> 0],
           summary |-> 0]}

\* created_at as the search API gives it, and a string that is no date
CreatedAtZ(t) == isoformat(t) \o <<"Z">>
NotADate == <<"n", "/", "a">>

\* hits of a Hacker News search
HNHits ==
    {[title |-> t, url |-> "h1", created_at |-> d, story_text |-> s] :
        t \in {MISSING, "X"},
        d \in {MissingDate, NoneDate, CreatedAtZ(T1), NotADate},
        s \in {MissingInt, NullInt, LongText}}
    \cup {[title |-> NONE, url |-> NONE, created_at |-> CreatedAtZ(T2),
           story_text |-> 0]}

\* the items a whole run draws its responses from
RunRedditChildren ==
    {c \in RedditChildren :
        /\ c.selftext = LongText /\ c.created_utc = T1
        /\ c.title \in {"", "X"}}
    \cup {c \in RedditChildren : ~c.hasData}
RunGNewsEntries ==
    {e \in GNewsEntries :
        /\ e.title = "X" /\ e.published.st = "aware" /\ e.published.off = 5}
RunHNHits ==
    {h \in HNHits :
        /\ h.title = "X" /\ h.story_text = LongText
        /\ h.created_at \in {MissingDate, CreatedAtZ(T1)}}

\* the records a list handed to clean_and_merge is drawn from: each source
\* with the date values its adapter produces
MergeRecords(offset) ==
    {[source |-> src[1], title |-> t, link |-> l, date |-> src[2],
      summary |-> 0] :
        t \in {"", "X"}, l \in {"l1", "l2"},
        src \in {<<"Reddit", isoformat(fromtimestamp(T1, offset))>>,
                 <<"Google News",
                   parse_isoformat([st |-> "aware", wall |-> T1 + 3, off |-> 5])>>,
                 <<"Hacker News", EmptyStr>>,
                 <<"Hacker News", NotADate>>}}
    \cup {[source |-> "Hacker News", title |-> NONE, link |-> "l1",
           date |-> CreatedAtZ(T1), summary |-> 0],
          [source |-> "Hacker News", title |-> "X", link |-> "l1",
           date |-> NoneDate, summary |-> 0]}

\* what the worksheet can hold before a run
OldRow(n) ==
    [values |-> <<"Reddit", "old", "l1", isoformat(n), 0>>]
PriorSheets ==
    {<<>>,
     <<header_row, OldRow(1)>>,
     [i \in 1..8 |-> IF i = 1 THEN header_row ELSE OldRow(i)]}

-----------------------------------------------------------------------------
(* run_automation *)

\* the mutated failure path: the exception is swallowed and the run goes on
\* to its last line
Fail_swallowed(stage) ==
    /\ pc' = "uploaded"
    /\ failedAt' = stage
    /\ outcome' = outcome

\* an exception raised in run_automation is caught nowhere: the run ends
Fail(stage) ==
    /\ pc' = "failed"
    /\ failedAt' = stage
    /\ outcome' = "failure"

Init ==
    /\ pc = "start"
    /\ tz \in LocalUtcOffsets
    /\ raw = NoResponse
    /\ ret = Return(<<>>)
    /\ reddit = <<>>
    /\ gnews = <<>>
    /\ hacker = <<>>
    /\ results = <<>>
    /\ df = Return(<<>>)
    /\ sheet \in PriorSheets
    /\ sheetBefore = sheet
    /\ calls = <<>>
    /\ failedAt = "none"
    /\ outcome = "running"

\* line 167
FetchReddit ==
    /\ pc = "start"
    /\ \E resp \in Responses(RunRedditChildren, MaxRunItems) :
        LET r == fetch_reddit(resp, tz)
        IN  /\ raw' = resp
            /\ ret' = r
            /\ calls' = Append(calls, "fetch_reddit")
            /\ IF r.raised
               THEN Fail("fetch_reddit") /\ UNCHANGED reddit
               ELSE /\ reddit' = r.data
                    /\ pc' = "reddit_done"
                    /\ UNCHANGED <<failedAt, outcome>>
    /\ UNCHANGED <<sheetBefore, tz, gnews, hacker, results, df, sheet>>

\* line 168
FetchGoogleNews ==
    /\ pc = "reddit_done"
    /\ \E resp \in Responses(RunGNewsEntries, MaxRunItems) :
        LET r == fetch_google_news(resp)
        IN  /\ raw' = resp
            /\ ret' = r
            /\ calls' = Append(calls, "fetch_google_news")
            /\ IF r.raised
               THEN Fail("fetch_google_news") /\ UNCHANGED gnews
               ELSE /\ gnews' = r.data
                    /\ pc' = "gnews_done"
                    /\ UNCHANGED <<failedAt, outcome>>
    /\ UNCHANGED <<sheetBefore, tz, reddit, hacker, results, df, sheet>>

\* line 169
FetchHackerNews ==
    /\ pc = "gnews_done"
    /\ \E resp \in Responses(RunHNHits, MaxRunItems) :
        LET r == fetch_hacker_news(resp)
        IN  /\ raw' = resp
            /\ ret' = r
            /\ calls' = Append(calls, "fetch_hacker_news")
            /\ IF r.raised
               THEN Fail("fetch_hacker_news") /\ UNCHANGED hacker
               ELSE /\ hacker' = r.data
                    /\ pc' = "hn_done"
                    /\ UNCHANGED <<failedAt, outcome>>
    /\ UNCHANGED <<sheetBefore, tz, reddit, gnews, results, df, sheet>>

\* lines 171-173: combined = reddit + gnews + hacker; clean_and_merge(combined)
CleanAndMerge ==
    /\ pc = "hn_done"
    /\ results' = reddit \o gnews \o hacker
    /\ \E o \in clean_and_merge(reddit \o gnews \o hacker) :
        /\ df' = o
        /\ IF o.raised
           THEN Fail("clean_and_merge")
           ELSE pc' = "merged" /\ UNCHANGED <<failedAt, outcome>>
    /\ calls' = Append(calls, "clean_and_merge")
    /\ UNCHANGED <<sheetBefore, tz, raw, ret, reddit, gnews, hacker, sheet>>

\* line 175, lines 20-46: the credentials, the authorisation or the creation
\* can raise; when opening the spreadsheet raises, a new, empty one is created
ConnectToGoogleSheet ==
    /\ pc = "merged"
    /\ calls' = Append(calls, "connect_to_google_sheet")
    /\ \E res \in {"opened", "created", "raised"} :
        IF res = "raised"
        THEN Fail("connect_to_google_sheet") /\ UNCHANGED sheet
        ELSE /\ pc' = "connected"
             /\ sheet' = IF res = "created" THEN <<>> ELSE sheet
             /\ UNCHANGED <<failedAt, outcome>>
    /\ UNCHANGED <<sheetBefore, tz, raw, ret, reddit, gnews, hacker, results, df>>

\* line 152
SheetClear ==
    /\ pc = "connected"
    /\ calls' = Append(calls, "sheet.clear")
    /\ \E raised \in BOOLEAN :
        IF raised
        THEN Fail("sheet.clear") /\ UNCHANGED sheet
        ELSE /\ pc' = "cleared"
             /\ sheet' = sheet_clear(sheet)
             /\ UNCHANGED <<failedAt, outcome>>
    /\ UNCHANGED <<sheetBefore, tz, raw, ret, reddit, gnews, hacker, results, df>>

\* lines 155-157
SheetUpdate ==
    /\ pc = "cleared"
    /\ calls' = Append(calls, "sheet.update")
    /\ \E raised \in BOOLEAN :
        IF raised
        THEN Fail("sheet.update") /\ UNCHANGED sheet
        ELSE /\ pc' = "uploaded"
             /\ sheet' = sheet_update(sheet, sheet_rows(df.data))
             /\ UNCHANGED <<failedAt, outcome>>
    /\ UNCHANGED <<sheetBefore, tz, raw, ret, reddit, gnews, hacker, results, df>>

\* line 178
Finish ==
    /\ pc = "uploaded"
    /\ pc' = "done"
    /\ outcome' = "success"
    /\ UNCHANGED <<sheetBefore, tz, raw, ret, reddit, gnews, hacker, results, df, sheet,
                   calls, failedAt>>

Next ==
    \/ FetchReddit
    \/ FetchGoogleNews
    \/ FetchHackerNews
    \/ CleanAndMerge
    \/ ConnectToGoogleSheet
    \/ SheetClear
    \/ SheetUpdate
    \/ Finish

Spec == Init /\ [][Next]_vars

-----------------------------------------------------------------------------
(* The adapters as functions of the collaborator's response *)

InitAdapters ==
    /\ pc = "call_adapter"
    /\ tz \in LocalUtcOffsets
    /\ raw = NoResponse
    /\ ret = Return(<<>>)
    /\ reddit = <<>>
    /\ gnews = <<>>
    /\ hacker = <<>>
    /\ results = <<>>
    /\ df = Return(<<>>)
    /\ sheet = <<>>
    /\ sheetBefore = <<>>
    /\ calls = <<>>
    /\ failedAt = "none"
    /\ outcome = "running"

CallFetchReddit ==
    /\ pc = "call_adapter"
    /\ pc' = "adapter_returned"
    /\ \E resp \in Responses(RedditChildren, MaxItems) :
        raw' = resp /\ ret' = fetch_reddit(resp, tz)
    /\ calls' = <<"fetch_reddit">>
    /\ UNCHANGED <<sheetBefore, tz, reddit, gnews, hacker, results, df, sheet, failedAt,
                   outcome>>

CallFetchGoogleNews ==
    /\ pc = "call_adapter"
    /\ pc' = "adapter_returned"
    /\ \E resp \in Responses(GNewsEntries, MaxItems) :
        raw' = resp /\ ret' = fetch_google_news(resp)
    /\ calls' = <<"fetch_google_news">>
    /\ UNCHANGED <<sheetBefore, tz, reddit, gnews, hacker, results, df, sheet, failedAt,
                   outcome>>

CallFetchHackerNews ==
    /\ pc = "call_adapter"
    /\ pc' = "adapter_returned"
    /\ \E resp \in Responses(HNHits, MaxItems) :
        raw' = resp /\ ret' = fetch_hacker_news(resp)
    /\ calls' = <<"fetch_hacker_news">>
    /\ UNCHANGED <<sheetBefore, tz, reddit, gnews, hacker, results, df, sheet, failedAt,
                   outcome>>

NextAdapters ==
    \/ CallFetchReddit
    \/ CallFetchGoogleNews
    \/ CallFetchHackerNews

SpecAdapters == InitAdapters /\ [][NextAdapters]_vars

-----------------------------------------------------------------------------
(* clean_and_merge as a function of its argument *)

InitMerge ==
    /\ pc = "call_merge"
    /\ tz \in LocalUtcOffsets
    /\ raw = NoResponse
    /\ ret = Return(<<>>)
    /\ reddit = <<>>
    /\ gnews = <<>>
    /\ hacker = <<>>
    /\ results \in SeqsUpTo(MergeRecords(tz), MaxRecords)
    /\ df = Return(<<>>)
    /\ sheet = <<>>
    /\ sheetBefore = <<>>
    /\ calls = <<>>
    /\ failedAt = "none"
    /\ outcome = "running"

CallCleanAndMerge ==
    /\ pc = "call_merge"
    /\ pc' = "merge_returned"
    /\ \E o \in clean_and_merge(results) : df' = o
    /\ calls' = <<"clean_and_merge">>
    /\ UNCHANGED <<sheetBefore, tz, raw, ret, reddit, gnews, hacker, results, sheet,
                   failedAt, outcome>>

NextMerge == CallCleanAndMerge

SpecMerge == InitMerge /\ [][NextMerge]_vars

-----------------------------------------------------------------------------
(* Properties *)

DestinationStages == {"connect_to_google_sheet", "sheet.clear", "sheet.update"}

MergeReturned == pc = "merge_returned" /\ ~df.raised
SameKey(a, b) == a.title = b.title /\ a.link = b.link

\* the list clean_and_merge sorts: after dropna and drop_duplicates
Deduplicated == drop_duplicates(dropna_title(results))
PositionIn(rows, r) == CHOOSE i \in 1..Len(rows) : rows[i] = r

\* reading a date string of the model: "YYYY-01-DDTHH:00:00", alone (local
\* time), followed by "Z", or followed by "+HH:00" / "-HH:00"
DigitValue(c) == Ord[c] - Ord["0"]
TwoDigitValue(d, i) == 10 * DigitValue(d[i]) + DigitValue(d[i + 1])
IsoLength == Len(isoformat(T1))
ValidDate(d) == ~isna_date(d) /\ Len(d) >= IsoLength
Instant(d, offset) ==
    LET base == IF d[1] = "1" THEN 0 ELSE HoursTo2024
        wall == base + 24 * (TwoDigitValue(d, 9) - 1) + TwoDigitValue(d, 12)
    IN  IF Len(d) = IsoLength THEN wall - offset
        ELSE IF d[IsoLength + 1] = "Z" THEN wall
        ELSE IF d[IsoLength + 1] = "+"
             THEN wall - TwoDigitValue(d, IsoLength + 2)
             ELSE wall + TwoDigitValue(d, IsoLength + 2)

\* C1: no record whose title is the empty string or absent appears in the
\* output of clean_and_merge
C1_NoEmptyTitleInOutput ==
    MergeReturned =>
        \A i \in 1..Len(df.data) : df.data[i].title \notin {"", NONE, MISSING}

\* C2: the output of clean_and_merge holds no two records with the same
\* (title, link); each record of the output is the earliest record of the
\* input with its (title, link), whatever the dates; and every (title, link)
\* of an input record that has a title is in the output
C2_DeduplicationKeepsFirst ==
    MergeReturned =>
        /\ \A i, j \in 1..Len(df.data) :
               SameKey(df.data[i], df.data[j]) => i = j
        /\ \A i \in 1..Len(df.data) :
               \E m \in 1..Len(results) :
                   /\ results[m] = df.data[i]
                   /\ \A n \in 1..(m - 1) : ~SameKey(results[n], results[m])
        /\ \A m \in 1..Len(results) :
               ~isna(results[m].title) =>
                   \E i \in 1..Len(df.data) : SameKey(df.data[i], results[m])

\* C2 witness: two input records collide on (title, link) with different
\* dates, and the output holds the first of them
C2_Witness ==
    /\ MergeReturned
    /\ \E m, n \in 1..Len(results) :
           /\ m < n
           /\ SameKey(results[m], results[n])
           /\ results[m].date # results[n].date
           /\ ~isna(results[m].title)
           /\ \E i \in 1..Len(df.data) : df.data[i] = results[m]

\* C3: the output of clean_and_merge is ordered newest first, and every
\* record whose date is empty or no date comes after all records with a
\* valid date
C3_NewestFirstInvalidLast ==
    MergeReturned =>
        \A i, j \in 1..Len(df.data) :
            i < j =>
                /\ ~ValidDate(df.data[i].date) => ~ValidDate(df.data[j].date)
                /\ (ValidDate(df.data[i].date) /\ ValidDate(df.data[j].date)) =>
                       Instant(df.data[i].date, tz) >= Instant(df.data[j].date, tz)

\* C8: two records of the output whose dates are equal, or both empty or
\* missing, are in the order they had after deduplication
NoDate(d) == d = EmptyStr \/ isna_date(d)
C8_SortIsStable ==
    MergeReturned =>
        \A i, j \in 1..Len(df.data) :
            (/\ i < j
             /\ \/ df.data[i].date = df.data[j].date
                \/ NoDate(df.data[i].date) /\ NoDate(df.data[j].date))
            => PositionIn(Deduplicated, df.data[i])
                   < PositionIn(Deduplicated, df.data[j])

AdapterReturned == pc = "adapter_returned"

\* an item of the response makes the loop body of the called adapter raise
ItemFailure ==
    \/ /\ calls[1] = "fetch_reddit"
       /\ \E i \in 1..Len(raw.items) : reddit_item_raises(raw.items[i])
    \/ /\ calls[1] = "fetch_google_news"
       /\ \E i \in 1..Len(raw.items) : gnews_entry_raises(raw.items[i])

\* C4: an adapter never raises to its caller, whatever the collaborator
\* answers; when the fetch fails (network error, timeout, malformed response)
\* or an item makes the adapter fail, it returns the empty list
C4_AdapterNeverRaises ==
    AdapterReturned =>
        /\ ~ret.raised
        /\ (raw.kind # "ok" \/ ItemFailure) => ret.data = <<>>

\* C4 witness: the Google News adapter has swallowed the exception raised
\* inside its loop and returned the empty list
C4_Witness ==
    /\ AdapterReturned
    /\ calls[1] = "fetch_google_news"
    /\ raw.kind = "ok"
    /\ Len(raw.items) = 2
    /\ ItemFailure
    /\ ~ret.raised
    /\ ret.data = <<>>

\* C6: every record an adapter returns has a non-empty source and a summary
\* of at most 200 characters
C6_SourceAndSummaryLimit ==
    AdapterReturned =>
        \A i \in 1..Len(ret.data) :
            /\ ret.data[i].source # ""
            /\ ret.data[i].summary <= SummaryLimit

\* an item that lacks fields and is otherwise well formed
LacksFieldsOnly(name, item) ==
    CASE name = "fetch_reddit" ->
            /\ item.permalink # NONE
            /\ item.created_utc # NullInt
            /\ item.selftext # NullInt
      [] name = "fetch_google_news" -> item.published.st # "unparseable"
      [] OTHER -> TRUE

\* C9: when items of a response lack fields, the adapter still returns one
\* record for every item of the response
C9_MissingFieldGetsDefault ==
    (/\ AdapterReturned
     /\ raw.kind = "ok"
     /\ \A i \in 1..Len(raw.items) : LacksFieldsOnly(calls[1], raw.items[i]))
    => /\ ~ret.raised
       /\ Len(ret.data) = Len(raw.items)

\* C5: a run fails only when the destination stage fails
C5_OnlyDestinationFails ==
    outcome = "failure" => failedAt \in DestinationStages

RunPrefix ==
    <<"fetch_reddit", "fetch_google_news", "fetch_hacker_news",
      "clean_and_merge", "connect_to_google_sheet">>

\* C7: once save_to_sheet has completed, the worksheet holds the header row
\* followed by one row per record of the frame, in order, and nothing else,
\* whatever it held before; the clear was called before the update
C7_FullReplace ==
    pc \in {"uploaded", "done"} =>
        /\ Len(sheet) = Len(df.data) + 1
        /\ sheet[1] = [columns |-> <<"source", "title", "link", "date", "summary">>]
        /\ \A i \in 1..Len(df.data) :
               sheet[i + 1] =
                   [values |-> <<df.data[i].source, df.data[i].title,
                                 df.data[i].link, df.data[i].date,
                                 df.data[i].summary>>]
        /\ calls = RunPrefix \o <<"sheet.clear", "sheet.update">>

\* C7 witness: a run completed on a worksheet that held more rows than the
\* run wrote
C7_Witness ==
    /\ pc = "done"
    /\ Len(df.data) >= 2
    /\ sheet = sheet_rows(df.data)
    /\ Len(sheetBefore) > Len(sheet)
    /\ "connect_to_google_sheet" \in {calls[i] : i \in 1..Len(calls)}

\* C10: when the destination stage fails, the run has failed and has not
\* reported success, and the stages invoked are the three adapters and the
\* merge, once each and in this order, then the destination calls up to the
\* one that failed, and nothing after it
C10_DestinationFailureIsFatal ==
    failedAt \in DestinationStages =>
        /\ pc = "failed"
        /\ outcome = "failure"
        /\ calls[Len(calls)] = failedAt
        /\ calls \in {RunPrefix,
                      RunPrefix \o <<"sheet.clear">>,
                      RunPrefix \o <<"sheet.clear", "sheet.update">>}

\* C10 witness: the update failed after the clear
C10_Witness ==
    /\ failedAt = "sheet.update"
    /\ outcome = "failure"
    /\ calls = RunPrefix \o <<"sheet.clear", "sheet.update">>

====
